---- MODULE Spec2Model ----
(***************************************************************************)
(* State-stored aggregates of fmodel-ts                                    *)
(* (src/src/lib/application/statestored-aggregate.ts).                     *)
(*                                                                         *)
(* The library is generic in the decider (decide, evolve, initialState),   *)
(* the saga (react) and the repository (fetchState, save) its caller       *)
(* supplies.  The model draws them from a small family of concrete units   *)
(* and runs the library's own code on them: the two computeNewState        *)
(* algorithms as recursive operators that also record every call made to   *)
(* the decider and the saga, and the four handle methods as actions split  *)
(* at their two suspension points.                                         *)
(*                                                                         *)
(* Events are integers.  States are integers, or for the "journal" decider *)
(* JavaScript strings, modelled as sequences of characters (the events).   *)
(***************************************************************************)
EXTENDS Integers, Sequences, FiniteSets, TLC

VARIABLES
    decider,      \* the IDecider the aggregate was constructed with
    saga,         \* the ISaga the aggregate was constructed with ("none": no follow-ups)
    variant,      \* which of the four aggregate classes the aggregate is
    faulty,       \* whether the repository may raise I/O failures of its own
    store,        \* repository: the stored state, an option [some, val]
    storeVersion, \* repository: the stored version, an option [some, val]
    pc,           \* per handle invocation: where it is
    cmd,          \* per handle invocation: the command it was called with
    fetched,      \* per handle invocation: what its fetchState settled with
    calls,        \* per handle invocation: the collaborator calls it made, in order
    outcome,      \* per handle invocation: how the promise handle returned settled
    saves,        \* repository: the invocations whose save succeeded, in order
    twin,         \* the non-orchestrating aggregate run beside the orchestrating one
    pState,       \* pure-function checks: the state argument
    pCmd,         \* pure-function checks: the command argument
    pRes          \* pure-function checks: the results computed so far

vars == <<decider, saga, variant, faulty, store, storeVersion, pc, cmd, fetched,
          calls, outcome, saves, twin, pState, pCmd, pRes>>

----------------------------------------------------------------------------
(* Bounds of the model *)

\* number of handle invocations that may overlap on the aggregate
MaxCalls == 2
\* depth of nested computeNewState calls at which the JavaScript engine's call
\* stack is exhausted (a RangeError is thrown)
MaxStack == 6
\* largest integer command of the "adder" decider
MaxAdd == 2
\* largest integer state drawn as an argument of the pure-function checks
MaxState == 3
\* number of commands the work-list traversal may process
MaxCascade == 12
\* number of handle calls made one after the other on a pair of aggregates
MaxSeq == 2

----------------------------------------------------------------------------
(* The units the caller supplies: deciders and sagas *)

Deciders == {"adder", "counter", "register", "journal"}

\* whether the decider's states are JavaScript strings (else numbers)
StringState(d) == d = "journal"

\* IDecider.initialState
InitialState(d) ==
    CASE d = "adder" -> 0
      [] d = "counter" -> 0
      [] d = "register" -> 1
      [] d = "journal" -> <<>>

\* the commands handle may be called with.  adder: the integer to add;
\* counter: "inc"; register: "set0" and "set2" set the state and "keep" is a
\* no-op; journal: "a" starts a cascade under the saga "routes", "noop"
\* decides no event, "badDecide" makes decide throw, "badEvolve" decides an
\* event evolve throws on, "badReact" one react throws on, "deep" fails two
\* levels down the cascade, "loop" never reaches a fixed point
Commands(d) ==
    CASE d = "adder" -> 0..MaxAdd
      [] d = "counter" -> {"inc"}
      [] d = "register" -> {"set0", "set2", "keep"}
      [] d = "journal" ->
            {"a", "noop", "badDecide", "badEvolve", "badReact", "deep", "loop"}

\* IDecider.decide throws
DecideThrows(d, c, s) == d = "journal" /\ c = "badDecide"

\* IDecider.decide(c, s): the events, in order
Decide(d, c, s) ==
    CASE d = "adder" -> <<c>>
      [] d = "counter" -> <<s + 1>>
      [] d = "register" ->
            CASE c = "set0" -> <<0>>
              [] c = "set2" -> <<2>>
              [] OTHER -> <<>>
      [] d = "journal" ->
            CASE c = "a" -> <<11, 12>>
              [] c = "b" -> <<20>>
              [] c = "c" -> <<30>>
              [] c = "d" -> <<40>>
              [] c = "e" -> <<50>>
              [] c = "badEvolve" -> <<60, 80>>
              [] c = "badReact" -> <<90>>
              [] c = "deep" -> <<100>>
              [] c = "loop" -> <<110>>
              [] OTHER -> <<>>

\* IDecider.evolve throws
EvolveThrows(d, s, e) == d = "journal" /\ e = 80

\* IDecider.evolve(s, e)
Evolve(d, s, e) ==
    CASE d = "adder" -> s + e
      [] d = "counter" -> s + 1
      [] d = "register" -> e
      [] d = "journal" -> Append(s, e)

Sagas == {"none", "below3", "routes"}

\* ISaga.react throws
ReactThrows(g, e) == g = "routes" /\ e = 90

\* ISaga.react(e): the follow-up commands, in order
React(g, e) ==
    CASE g = "none" -> <<>>
      [] g = "below3" -> IF e < 3 THEN <<"inc">> ELSE <<>>
      [] g = "routes" ->
            CASE e = 11 -> <<"b", "c">>
              [] e = 12 -> <<"d">>
              [] e = 20 -> <<"e">>
              [] e = 100 -> <<"b", "badDecide">>
              [] e = 110 -> <<"loop">>
              [] OTHER -> <<>>

\* the (decider, saga) pairs an aggregate is built from
Units ==
    {<<d, "none">> : d \in Deciders}
        \cup {<<"counter", "below3">>, <<"journal", "routes">>}

\* JavaScript ToBoolean of a state: 0 and the empty string are falsy
Truthy(d, s) == IF StringState(d) THEN s # <<>> ELSE s # 0

----------------------------------------------------------------------------
(* Results of a computation: the new state, or the failure thrown, and the *)
(* calls made to the decider and the saga on the way.                      *)

Returned(s, cs) == [ok |-> TRUE, state |-> s, err |-> "", calls |-> cs]
Thrown(s, err, cs) == [ok |-> FALSE, state |-> s, err |-> err, calls |-> cs]

RECURSIVE reduceRight(_, _, _)
\* events.reduceRight(this.decider.evolve, state): the fold from the last event
reduceRight(d, events, acc) ==
    IF events = <<>> THEN acc
    ELSE LET e == events[Len(events)]
             call == <<"evolve", acc.state, e>>
         IN IF EvolveThrows(d, acc.state, e)
            THEN Thrown(acc.state, "EvolveError", Append(acc.calls, call))
            ELSE reduceRight(d, SubSeq(events, 1, Len(events) - 1),
                             Returned(Evolve(d, acc.state, e),
                                      Append(acc.calls, call)))

RECURSIVE reduce(_, _, _)
\* events.reduce(this.decider.evolve, state); acc is the result so far
reduce(d, events, acc) ==
    IF events = <<>> THEN acc
    ELSE LET e == Head(events)
             call == <<"evolve", acc.state, e>>
         IN IF EvolveThrows(d, acc.state, e)
            THEN Thrown(acc.state, "EvolveError", Append(acc.calls, call))
            ELSE reduce(d, Tail(events),
                        Returned(Evolve(d, acc.state, e), Append(acc.calls, call)))

\* StateComputation.computeNewState(state, command)
StateComputation_computeNewState(d, state, command) ==
    LET call == <<"decide", command, state>>
    IN IF DecideThrows(d, command, state)
       THEN Thrown(state, "DecideError", <<call>>)
       ELSE reduce(d, Decide(d, command, state), Returned(state, <<call>>))

RECURSIVE flatMapReact(_, _, _)
\* events.flatMap((it) => this.saga.react(it)); acc is [ok, cmds, err, calls]
flatMapReact(g, events, acc) ==
    IF events = <<>> THEN acc
    ELSE LET e == Head(events)
             cs == Append(acc.calls, <<"react", e>>)
         IN IF ReactThrows(g, e)
            THEN [ok |-> FALSE, cmds |-> <<>>, err |-> "ReactError", calls |-> cs]
            ELSE flatMapReact(g, Tail(events),
                              [acc EXCEPT !.cmds = @ \o React(g, e), !.calls = cs])

RECURSIVE forEachShallow(_, _, _, _, _)
\* .forEach((c) => (newState = super.computeNewState(newState, c))): the
\* follow-up commands are computed without their own follow-ups
forEachShallow(d, g, cmds, acc, depth) ==
    IF cmds = <<>> THEN acc
    ELSE LET r == StateComputation_computeNewState(d, acc.state, Head(cmds))
             cs == acc.calls \o r.calls
         IN IF r.ok
            THEN forEachShallow(d, g, Tail(cmds), Returned(r.state, cs), depth)
            ELSE Thrown(acc.state, r.err, cs)

RECURSIVE StateOrchestratingComputation_computeNewState(_, _, _, _, _)
RECURSIVE forEachDiscarding(_, _, _, _, _)
\* .forEach((c) => this.computeNewState(newState, c)): the follow-up commands
\* are computed but what they return is not assigned to newState
forEachDiscarding(d, g, cmds, acc, depth) ==
    IF cmds = <<>> THEN acc
    ELSE LET r == StateOrchestratingComputation_computeNewState(
                      d, g, acc.state, Head(cmds), depth + 1)
             cs == acc.calls \o r.calls
         IN IF r.ok
            THEN forEachDiscarding(d, g, Tail(cmds), Returned(acc.state, cs), depth)
            ELSE Thrown(acc.state, r.err, cs)

RECURSIVE forEachRefetching(_, _, _, _, _)
\* follow-up commands handled as handle handles a command: fetchState is called
\* for each and the command is computed from the state it returns
forEachRefetching(d, g, cmds, acc, depth) ==
    IF cmds = <<>> THEN acc
    ELSE LET r == StateOrchestratingComputation_computeNewState(
                      d, g, IF store.some THEN store.val ELSE InitialState(d),
                      Head(cmds), depth + 1)
             cs == acc.calls \o <<<<"fetchState", Head(cmds)>>>> \o r.calls
         IN IF r.ok
            THEN forEachRefetching(d, g, Tail(cmds), Returned(r.state, cs), depth)
            ELSE Thrown(acc.state, r.err, cs)

RECURSIVE forEach(_, _, _, _, _)
\* .forEach((c) => (newState = this.computeNewState(newState, c))); acc is the
\* result so far, acc.state the variable newState
forEach(d, g, cmds, acc, depth) ==
    IF cmds = <<>> THEN acc
    ELSE LET r == StateOrchestratingComputation_computeNewState(
                      d, g, acc.state, Head(cmds), depth + 1)
             cs == acc.calls \o r.calls
         IN IF r.ok
            THEN forEach(d, g, Tail(cmds), Returned(r.state, cs), depth)
            ELSE Thrown(acc.state, r.err, cs)

\* computeNewState with "let newState = state": the events of the command are
\* routed to the saga but never evolved
computeNewStateUnfolded(d, g, state, command, depth) ==
    IF depth > MaxStack THEN Thrown(state, "RangeError", <<>>)
    ELSE LET call == <<"decide", command, state>>
         IN IF DecideThrows(d, command, state)
            THEN Thrown(state, "DecideError", <<call>>)
            ELSE LET routed == flatMapReact(g, Decide(d, command, state),
                                   [ok |-> TRUE, cmds |-> <<>>, err |-> "",
                                    calls |-> <<call>>])
                 IN IF ~routed.ok
                    THEN Thrown(state, routed.err, routed.calls)
                    ELSE forEach(d, g, routed.cmds,
                                 Returned(state, routed.calls), depth)

\* computeNewState with a depth limit: below three nested calls a command is
\* returned from without being decided
computeNewStateDepthLimited(d, g, state, command, depth) ==
    IF depth > 3 THEN Returned(state, <<>>)
    ELSE LET call == <<"decide", command, state>>
         IN IF DecideThrows(d, command, state)
            THEN Thrown(state, "DecideError", <<call>>)
            ELSE LET events == Decide(d, command, state)
                     folded == reduce(d, events, Returned(state, <<call>>))
                     routed == flatMapReact(g, events,
                                   [ok |-> TRUE, cmds |-> <<>>, err |-> "",
                                    calls |-> folded.calls])
                 IN IF ~folded.ok THEN folded
                    ELSE IF ~routed.ok
                         THEN Thrown(folded.state, routed.err, routed.calls)
                         ELSE forEach(d, g, routed.cmds,
                                      Returned(folded.state, routed.calls), depth)

\* StateOrchestratingComputation.computeNewState(state, command), entered with
\* depth - 1 computeNewState frames already on the call stack
StateOrchestratingComputation_computeNewState(d, g, state, command, depth) ==
    IF depth > MaxStack THEN Thrown(state, "RangeError", <<>>)
    ELSE LET call == <<"decide", command, state>>
         IN IF DecideThrows(d, command, state)
            THEN Thrown(state, "DecideError", <<call>>)
            ELSE LET events == Decide(d, command, state)
                     folded == reduce(d, events, Returned(state, <<call>>))
                     routed == flatMapReact(g, events,
                                   [ok |-> TRUE, cmds |-> <<>>, err |-> "",
                                    calls |-> folded.calls])
                 IN IF ~folded.ok THEN folded
                    ELSE IF ~routed.ok
                         THEN Thrown(folded.state, routed.err, routed.calls)
                         ELSE forEach(d, g, routed.cmds,
                                      Returned(folded.state, routed.calls), depth)

----------------------------------------------------------------------------
(* An aggregate as the decider (and saga) of a further computation: the     *)
(* methods decide, evolve and react of StateComputation and                 *)
(* StateOrchestratingComputation, and the field initialState.               *)

\* StateComputation.initialState of an aggregate over decider d:
\* this.initialState = decider.initialState
StateComputation_initialState(d) == InitialState(d)

\* StateComputation.decide(c, s) of an aggregate over decider d, called as a
\* method: return this.decider.decide(c, s)
StateComputation_decide(d, c, s) ==
    IF DecideThrows(d, c, s)
    THEN [ok |-> FALSE, events |-> <<>>, err |-> "DecideError"]
    ELSE [ok |-> TRUE, events |-> Decide(d, c, s), err |-> ""]

\* StateComputation.evolve(s, e) of an aggregate over decider d:
\* return this.decider.evolve(s, e).  bound: whether it is called as a method
\* of the aggregate; called as a bare function its "this" is undefined and
\* reading this.decider throws a TypeError
StateComputation_evolve(bound, d, s, e) ==
    IF ~bound THEN [ok |-> FALSE, state |-> s, err |-> "TypeError"]
    ELSE IF EvolveThrows(d, s, e)
    THEN [ok |-> FALSE, state |-> s, err |-> "EvolveError"]
    ELSE [ok |-> TRUE, state |-> Evolve(d, s, e), err |-> ""]

\* StateOrchestratingComputation.react(e) of an aggregate over saga g, called
\* as a method: return this.saga.react(ar)
StateOrchestratingComputation_react(g, e) ==
    IF ReactThrows(g, e)
    THEN [ok |-> FALSE, cmds |-> <<>>, err |-> "ReactError"]
    ELSE [ok |-> TRUE, cmds |-> React(g, e), err |-> ""]

RECURSIVE reduceOverAggregate(_, _, _)
\* events.reduce(this.decider.evolve, state) where this.decider is an
\* aggregate over decider d: reduce is handed the method evolve without its
\* receiver and calls it as a bare function
reduceOverAggregate(d, events, acc) ==
    IF events = <<>> THEN acc
    ELSE LET e == Head(events)
             r == StateComputation_evolve(FALSE, d, acc.state, e)
             cs == Append(acc.calls, <<"evolve", acc.state, e>>)
         IN IF r.ok
            THEN reduceOverAggregate(d, Tail(events), Returned(r.state, cs))
            ELSE Thrown(acc.state, r.err, cs)

\* StateComputation.computeNewState(state, command) of a computation whose
\* decider is an aggregate over decider d
computeNewStateOverAggregate(d, state, command) ==
    LET call == <<"decide", command, state>>
        decided == StateComputation_decide(d, command, state)
    IN IF ~decided.ok
       THEN Thrown(state, decided.err, <<call>>)
       ELSE reduceOverAggregate(d, decided.events, Returned(state, <<call>>))

----------------------------------------------------------------------------
(* The aggregate and its handle invocations *)

Variants ==
    {"StateStoredAggregate", "StateStoredLockingAggregate",
     "StateStoredOrchestratingAggregate",
     "StateStoredOrchestratingLockingAggregate"}

\* the variants over a StateLockingRepository
Locking(v) ==
    v \in {"StateStoredLockingAggregate",
           "StateStoredOrchestratingLockingAggregate"}

\* the variants that extend StateOrchestratingComputation
Orchestrating(v) ==
    v \in {"StateStoredOrchestratingAggregate",
           "StateStoredOrchestratingLockingAggregate"}

Invocations == 1..MaxCalls

\* S | null and V | null: null is [some |-> FALSE]
Null(d) == [some |-> FALSE, val |-> InitialState(d)]
NullVersion == [some |-> FALSE, val |-> 0]
Some(v) == [some |-> TRUE, val |-> v]

\* placeholder for the command of an invocation not yet called
NoCommand(d) == IF d = "adder" THEN 0 ELSE "-"

Pending(d) ==
    [status |-> "pending", state |-> InitialState(d), version |-> NullVersion,
     err |-> ""]
Fulfilled(s, v) == [status |-> "fulfilled", state |-> s, version |-> v, err |-> ""]
Rejected(d, err) ==
    [status |-> "rejected", state |-> InitialState(d), version |-> NullVersion,
     err |-> err]

NotFetched(d) == [ok |-> FALSE, state |-> Null(d), version |-> NullVersion, err |-> ""]

cfgVars == <<decider, saga, variant, faulty>>
pureVars == <<pState, pCmd, pRes>>

\* StateRepository.fetchState(c) on a store holding st: the stored state or null
StateRepository_fetchState(st) ==
    [ok |-> TRUE, state |-> st, version |-> NullVersion, err |-> ""]

\* StateLockingRepository.fetchState(c) on a store holding st at version ver:
\* the pair of the stored state and the stored version, each null when absent
StateLockingRepository_fetchState(st, ver) ==
    [ok |-> TRUE, state |-> st, version |-> ver, err |-> ""]

\* fetchState rejecting with a failure of the repository's own
FetchFailure(d) ==
    [ok |-> FALSE, state |-> Null(d), version |-> NullVersion, err |-> "FetchError"]

\* save that keeps a state already stored and returns it: the first write wins
StateRepository_saveIfAbsent(st, saveCall) ==
    IF st.some
    THEN [ok |-> TRUE, store |-> st, version |-> NullVersion,
          outcome |-> Fulfilled(st.val, NullVersion)]
    ELSE [ok |-> TRUE, store |-> Some(saveCall[2]), version |-> NullVersion,
          outcome |-> Fulfilled(saveCall[2], NullVersion)]

\* StateRepository.save(s) on a store: s is stored and returned
StateRepository_save(st, saveCall) ==
    [ok |-> TRUE, store |-> Some(saveCall[2]), version |-> NullVersion,
     outcome |-> Fulfilled(saveCall[2], NullVersion)]

\* the version the locking repository gives the state it installs
NewVersion(v) == IF v.some THEN Some(v.val + 1) ELSE Some(0)

\* save that installs the state whatever version it is given
StateLockingRepository_saveUnchecked(d, st, ver, saveCall) ==
    [ok |-> TRUE, store |-> Some(saveCall[2]), version |-> NewVersion(ver),
     outcome |-> Fulfilled(saveCall[2], NewVersion(ver))]

\* StateLockingRepository.save(s, v) on a store holding st at version ver: the
\* state is saved only if the version in the storage has not changed, and is
\* returned with its new version
StateLockingRepository_save(d, st, ver, saveCall) ==
    IF saveCall[3] = ver
    THEN [ok |-> TRUE, store |-> Some(saveCall[2]), version |-> NewVersion(ver),
          outcome |-> Fulfilled(saveCall[2], NewVersion(ver))]
    ELSE [ok |-> FALSE, store |-> st, version |-> ver,
          outcome |-> Rejected(d, "ConcurrencyConflict")]

\* an aggregate with a field holding the state it computed last, taken as the
\* starting state in place of the fetched one once it is set
StartStateCached(d, currentState) ==
    IF calls[1] # <<>> /\ calls[1][Len(calls[1])][1] = "save"
    THEN calls[1][Len(calls[1])][2]
    ELSE IF currentState.some /\ Truthy(d, currentState.val)
         THEN currentState.val
         ELSE InitialState(d)

\* currentState ? currentState : this.decider.initialState
StartState(d, currentState) ==
    IF currentState.some /\ Truthy(d, currentState.val)
    THEN currentState.val
    ELSE InitialState(d)

\* handle with the computation in a try block whose catch saves the state the
\* computation had reached
afterAwaitCatching(d, f, r, saveCall) ==
    IF ~f.ok
    THEN [pc |-> "done", outcome |-> Rejected(d, f.err), calls |-> <<>>]
    ELSE [pc |-> "saving", outcome |-> Pending(d),
          calls |-> Append(r.calls, saveCall)]

\* what handle does once its await of fetchState settled with f, given the
\* result r of this.computeNewState(...) and the save call it would make: a
\* rejected fetch or a throwing computation rejects the promise handle returned
\* and nothing more is called; otherwise save is called and its promise returned
afterAwait(d, f, r, saveCall) ==
    IF ~f.ok
    THEN [pc |-> "done", outcome |-> Rejected(d, f.err), calls |-> <<>>]
    ELSE IF ~r.ok
    THEN [pc |-> "done", outcome |-> Rejected(d, r.err), calls |-> r.calls]
    ELSE [pc |-> "saving", outcome |-> Pending(d),
          calls |-> Append(r.calls, saveCall)]

\* handle without the fetched state: every command is computed from
\* this.decider.initialState
StateStoredAggregate_handleFromInitial(d, f, c) ==
    LET r == StateComputation_computeNewState(d, InitialState(d), c)
    IN afterAwait(d, f, r, <<"save", r.state>>)

\* StateStoredAggregate.handle(c), from the await on; f is what fetchState
\* settled with
StateStoredAggregate_handle(d, f, c) ==
    LET r == StateComputation_computeNewState(d, StartState(d, f.state), c)
    IN afterAwait(d, f, r, <<"save", r.state>>)

\* handle with "version ? version : null" as the version passed to save
StateStoredLockingAggregate_handleTruthyVersion(d, f, c) ==
    LET r == StateComputation_computeNewState(d, StartState(d, f.state), c)
        v == IF f.version.some /\ f.version.val # 0 THEN f.version ELSE NullVersion
    IN afterAwait(d, f, r, <<"save", r.state, v>>)

\* StateStoredLockingAggregate.handle(c), from the await on
StateStoredLockingAggregate_handle(d, f, c) ==
    LET r == StateComputation_computeNewState(d, StartState(d, f.state), c)
    IN afterAwait(d, f, r, <<"save", r.state, f.version>>)

\* handle as StateStoredAggregate has it, computing with the computeNewState of
\* StateComputation: the follow-up commands are not computed
StateStoredOrchestratingAggregate_handleSuper(d, g, f, c) ==
    LET r == StateComputation_computeNewState(d, StartState(d, f.state), c)
    IN afterAwait(d, f, r, <<"save", r.state>>)

\* StateStoredOrchestratingAggregate.handle(c), from the await on
StateStoredOrchestratingAggregate_handle(d, g, f, c) ==
    LET r == StateOrchestratingComputation_computeNewState(
                 d, g, StartState(d, f.state), c, 1)
    IN afterAwait(d, f, r, <<"save", r.state>>)

\* StateStoredOrchestratingLockingAggregate.handle(c), from the await on
StateStoredOrchestratingLockingAggregate_handle(d, g, f, c) ==
    LET r == StateOrchestratingComputation_computeNewState(
                 d, g, StartState(d, f.state), c, 1)
    IN afterAwait(d, f, r, <<"save", r.state, f.version>>)

\* the call of handle(command) up to its first suspension:
\* await this.stateRepository.fetchState(command); invocations are numbered in
\* the order of their calls
handleCall(i, c) ==
    /\ pc[i] = "idle"
    /\ \A j \in 1..(i - 1) : pc[j] # "idle"
    /\ pc' = [pc EXCEPT ![i] = "fetching"]
    /\ cmd' = [cmd EXCEPT ![i] = c]
    /\ calls' = [calls EXCEPT ![i] = <<<<"fetchState", c>>>>]
    /\ UNCHANGED <<cfgVars, pureVars, twin, store, storeVersion, fetched, outcome,
                   saves>>

\* the fetchState of invocation i settles with f
fetchSettles(i, f) ==
    /\ pc[i] = "fetching"
    /\ pc' = [pc EXCEPT ![i] = "fetched"]
    /\ fetched' = [fetched EXCEPT ![i] = f]
    /\ UNCHANGED <<cfgVars, pureVars, twin, store, storeVersion, cmd, calls,
                   outcome, saves>>

\* the repository answers the fetchState of a non-locking aggregate
PlainFetch(i) ==
    /\ ~Locking(variant)
    /\ fetchSettles(i, StateRepository_fetchState(store))

\* the repository answers the fetchState of a locking aggregate
LockingFetch(i) ==
    /\ Locking(variant)
    /\ fetchSettles(i, StateLockingRepository_fetchState(store, storeVersion))

\* the repository fails a fetchState
FailingFetch(i) ==
    /\ faulty
    /\ fetchSettles(i, FetchFailure(decider))

\* resume with an await inside the computation: the first call of the
\* computation is made in one run, the rest in a later one
resumeSuspending(i, a) ==
    /\ pc[i] = "fetched"
    /\ IF Len(calls[i]) = 1 /\ Len(a.calls) > 1
       THEN /\ calls' = [calls EXCEPT ![i] = Append(@, a.calls[1])]
            /\ UNCHANGED <<pc, outcome>>
       ELSE /\ pc' = [pc EXCEPT ![i] = a.pc]
            /\ outcome' = [outcome EXCEPT ![i] = a.outcome]
            /\ calls' = [calls EXCEPT ![i] =
                   <<@[1]>> \o a.calls]
    /\ UNCHANGED <<cfgVars, pureVars, twin, store, storeVersion, cmd, fetched,
                   saves>>

\* invocation i runs from its await of fetchState to its next suspension or its
\* end, in one synchronous run; a is what its handle does there
resume(i, a) ==
    /\ pc[i] = "fetched"
    /\ pc' = [pc EXCEPT ![i] = a.pc]
    /\ outcome' = [outcome EXCEPT ![i] = a.outcome]
    /\ calls' = [calls EXCEPT ![i] = @ \o a.calls]
    /\ UNCHANGED <<cfgVars, pureVars, twin, store, storeVersion, cmd, fetched,
                   saves>>

PlainResume(i) ==
    /\ variant = "StateStoredAggregate"
    /\ resume(i, StateStoredAggregate_handle(decider, fetched[i], cmd[i]))

LockingResume(i) ==
    /\ variant = "StateStoredLockingAggregate"
    /\ resume(i, StateStoredLockingAggregate_handle(decider, fetched[i], cmd[i]))

OrchestratingResume(i) ==
    /\ variant = "StateStoredOrchestratingAggregate"
    /\ resume(i, StateStoredOrchestratingAggregate_handle(
                     decider, saga, fetched[i], cmd[i]))

OrchestratingLockingResume(i) ==
    /\ variant = "StateStoredOrchestratingLockingAggregate"
    /\ resume(i, StateStoredOrchestratingLockingAggregate_handle(
                     decider, saga, fetched[i], cmd[i]))

\* the save call an invocation made (the last of its calls once it is saving)
SaveCall(i) == calls[i][Len(calls[i])]

\* whether invocation i called save
Saved(i) == calls[i] # <<>> /\ SaveCall(i)[1] = "save"

\* handle awaiting save and returning the state it computed with the version
\* it fetched, in place of what save returned
saveSettlesLocal(i, s) ==
    /\ pc[i] = "saving"
    /\ pc' = [pc EXCEPT ![i] = "done"]
    /\ outcome' = [outcome EXCEPT ![i] =
           IF s.ok THEN Fulfilled(SaveCall(i)[2], fetched[i].version)
           ELSE s.outcome]
    /\ store' = s.store
    /\ storeVersion' = s.version
    /\ saves' = IF s.ok THEN Append(saves, i) ELSE saves
    /\ UNCHANGED <<cfgVars, pureVars, twin, cmd, fetched, calls>>

\* the save of invocation i settles with s, and with it the promise its handle
\* returned (return this.stateRepository.save(...))
saveSettles(i, s) ==
    /\ pc[i] = "saving"
    /\ pc' = [pc EXCEPT ![i] = "done"]
    /\ outcome' = [outcome EXCEPT ![i] = s.outcome]
    /\ store' = s.store
    /\ storeVersion' = s.version
    /\ saves' = IF s.ok THEN Append(saves, i) ELSE saves
    /\ UNCHANGED <<cfgVars, pureVars, twin, cmd, fetched, calls>>

\* the repository answers the save of a non-locking aggregate
PlainSave(i) ==
    /\ ~Locking(variant)
    /\ saveSettles(i, StateRepository_save(store, SaveCall(i)))

\* the repository answers the save of a locking aggregate
LockingSave(i) ==
    /\ Locking(variant)
    /\ saveSettles(i, StateLockingRepository_save(
                          decider, store, storeVersion, SaveCall(i)))

\* the repository fails a save
FailingSave(i) ==
    /\ faulty
    /\ saveSettles(i, [ok |-> FALSE, store |-> store, version |-> storeVersion,
                       outcome |-> Rejected(decider, "SaveError")])

\* the pair of aggregates before any call
NoTwin(d) ==
    [store |-> Null(d), version |-> NullVersion, outcome |-> Pending(d),
     orchOutcome |-> Pending(d), n |-> 0]

\* the aggregate after construction, over an empty store, no handle called yet
Init ==
    /\ \E u \in Units : decider = u[1] /\ saga = u[2]
    /\ variant \in Variants
    /\ Orchestrating(variant) \/ saga = "none"
    /\ faulty \in BOOLEAN
    /\ store = Null(decider)
    /\ storeVersion = NullVersion
    /\ pc = [i \in Invocations |-> "idle"]
    /\ cmd = [i \in Invocations |-> NoCommand(decider)]
    /\ fetched = [i \in Invocations |-> NotFetched(decider)]
    /\ calls = [i \in Invocations |-> <<>>]
    /\ outcome = [i \in Invocations |-> Pending(decider)]
    /\ saves = <<>>
    /\ twin = NoTwin(decider)
    /\ pState = InitialState(decider)
    /\ pCmd = NoCommand(decider)
    /\ pRes = [plain |-> <<>>, orch |-> <<>>, over |-> <<>>]

Next ==
    \/ \E i \in Invocations : \E c \in Commands(decider) : handleCall(i, c)
    \/ \E i \in Invocations : PlainFetch(i)
    \/ \E i \in Invocations : LockingFetch(i)
    \/ \E i \in Invocations : FailingFetch(i)
    \/ \E i \in Invocations : PlainResume(i)
    \/ \E i \in Invocations : LockingResume(i)
    \/ \E i \in Invocations : OrchestratingResume(i)
    \/ \E i \in Invocations : OrchestratingLockingResume(i)
    \/ \E i \in Invocations : PlainSave(i)
    \/ \E i \in Invocations : LockingSave(i)
    \/ \E i \in Invocations : FailingSave(i)

Spec == Init /\ [][Next]_vars

----------------------------------------------------------------------------
(* The two computeNewState algorithms as pure functions: a state and a      *)
(* command are drawn, and each algorithm is applied to them once.           *)

\* the states drawn as arguments
PureStates(d) ==
    IF StringState(d) THEN {<<>>, <<50>>, <<12, 11>>} ELSE 0..MaxState

\* the commands drawn as arguments: those of handle and the follow-up commands
PureCommands(d) ==
    IF d = "journal" THEN Commands(d) \cup {"b", "c", "d", "e"} ELSE Commands(d)

InitPure ==
    /\ \E u \in Units : decider = u[1] /\ saga = u[2]
    /\ variant \in {v \in Variants : Orchestrating(v)}
    /\ faulty = FALSE
    /\ store = Null(decider)
    /\ storeVersion = NullVersion
    /\ pc = [i \in Invocations |-> "idle"]
    /\ cmd = [i \in Invocations |-> NoCommand(decider)]
    /\ fetched = [i \in Invocations |-> NotFetched(decider)]
    /\ calls = [i \in Invocations |-> <<>>]
    /\ outcome = [i \in Invocations |-> Pending(decider)]
    /\ saves = <<>>
    /\ twin = NoTwin(decider)
    /\ pState \in PureStates(decider)
    /\ pCmd \in PureCommands(decider)
    /\ pRes = [plain |-> <<>>, orch |-> <<>>, over |-> <<>>]

\* a StateComputation's computeNewState(pState, pCmd) is evaluated
ApplyPlain ==
    /\ pRes.plain = <<>>
    /\ pRes' = [pRes EXCEPT !.plain =
           <<StateComputation_computeNewState(decider, pState, pCmd)>>]
    /\ UNCHANGED <<cfgVars, twin, store, storeVersion, pc, cmd, fetched, calls,
                   outcome, saves, pState, pCmd>>

\* a StateOrchestratingComputation's computeNewState(pState, pCmd) is evaluated
ApplyOrchestrating ==
    /\ pRes.orch = <<>>
    /\ pRes' = [pRes EXCEPT !.orch =
           <<StateOrchestratingComputation_computeNewState(
                 decider, saga, pState, pCmd, 1)>>]
    /\ UNCHANGED <<cfgVars, twin, store, storeVersion, pc, cmd, fetched, calls,
                   outcome, saves, pState, pCmd>>

\* computeNewState(pState, pCmd) of a StateComputation built on an aggregate
\* over the decider is evaluated
ApplyOverAggregate ==
    /\ pRes.over = <<>>
    /\ pRes' = [pRes EXCEPT !.over =
           <<computeNewStateOverAggregate(decider, pState, pCmd)>>]
    /\ UNCHANGED <<cfgVars, twin, store, storeVersion, pc, cmd, fetched, calls,
                   outcome, saves, pState, pCmd>>

NextPure == ApplyPlain \/ ApplyOrchestrating \/ ApplyOverAggregate

SpecPure == InitPure /\ [][NextPure]_vars

----------------------------------------------------------------------------
(* An orchestrating aggregate and the non-orchestrating aggregate of the    *)
(* same decider and the same kind of repository, each over a store of its   *)
(* own, called with the same commands one call after the other.             *)

\* the non-orchestrating class beside an orchestrating one
PlainOf(v) ==
    IF Locking(v) THEN "StateStoredLockingAggregate" ELSE "StateStoredAggregate"

\* await handle(c) of an aggregate of class v, run alone over a repository
\* holding st at version ver: the store after it and how its promise settled
awaitHandle(v, d, g, st, ver, c) ==
    LET f == IF Locking(v)
             THEN StateLockingRepository_fetchState(st, ver)
             ELSE StateRepository_fetchState(st)
        a == CASE v = "StateStoredAggregate" ->
                      StateStoredAggregate_handle(d, f, c)
               [] v = "StateStoredLockingAggregate" ->
                      StateStoredLockingAggregate_handle(d, f, c)
               [] v = "StateStoredOrchestratingAggregate" ->
                      StateStoredOrchestratingAggregate_handle(d, g, f, c)
               [] v = "StateStoredOrchestratingLockingAggregate" ->
                      StateStoredOrchestratingLockingAggregate_handle(d, g, f, c)
        s == IF Locking(v)
             THEN StateLockingRepository_save(d, st, ver, a.calls[Len(a.calls)])
             ELSE StateRepository_save(st, a.calls[Len(a.calls)])
    IN IF a.pc = "saving"
       THEN [store |-> s.store, version |-> s.version, outcome |-> s.outcome]
       ELSE [store |-> st, version |-> ver, outcome |-> a.outcome]

InitTwin == InitPure

\* handle(c) is awaited on the orchestrating aggregate (over store and
\* storeVersion) and on the non-orchestrating one (over twin's)
TwinHandle(c) ==
    LET o == awaitHandle(variant, decider, saga, store, storeVersion, c)
        p == awaitHandle(PlainOf(variant), decider, "none", twin.store,
                         twin.version, c)
    IN /\ twin.n < MaxSeq
       /\ store' = o.store
       /\ storeVersion' = o.version
       /\ twin' = [store |-> p.store, version |-> p.version,
                   outcome |-> p.outcome, orchOutcome |-> o.outcome,
                   n |-> twin.n + 1]
       /\ UNCHANGED <<cfgVars, pureVars, pc, cmd, fetched, calls, outcome, saves>>

NextTwin ==
    \/ ApplyPlain
    \/ ApplyOrchestrating
    \/ \E c \in Commands(decider) : TwinHandle(c)

SpecTwin == InitTwin /\ [][NextTwin]_vars

----------------------------------------------------------------------------
(* An aggregate whose caller awaits each handle before calling the next:    *)
(* the invocations do not overlap.                                          *)

InitSeq == Init

\* await handle(c): the call is made once every earlier one has settled
handleCallInTurn(i, c) ==
    /\ \A j \in 1..(i - 1) : pc[j] = "done"
    /\ handleCall(i, c)

NextSeq ==
    \/ \E i \in Invocations : \E c \in Commands(decider) : handleCallInTurn(i, c)
    \/ \E i \in Invocations : PlainFetch(i)
    \/ \E i \in Invocations : LockingFetch(i)
    \/ \E i \in Invocations : FailingFetch(i)
    \/ \E i \in Invocations : PlainResume(i)
    \/ \E i \in Invocations : LockingResume(i)
    \/ \E i \in Invocations : OrchestratingResume(i)
    \/ \E i \in Invocations : OrchestratingLockingResume(i)
    \/ \E i \in Invocations : PlainSave(i)
    \/ \E i \in Invocations : LockingSave(i)
    \/ \E i \in Invocations : FailingSave(i)

SpecSeq == InitSeq /\ [][NextSeq]_vars

\* the continuation of the await of fetchState of invocation i is run: the
\* step of Resume that takes the invocation to its save or to its end
Resumption(i) ==
    /\ pc[i] = "fetched"
    /\ pc' \in {[pc EXCEPT ![i] = "saving"], [pc EXCEPT ![i] = "done"]}

\* the calls awaited one after the other, under the JavaScript job queue: the
\* continuation of an await whose promise has settled is eventually run
SpecSeqLive == SpecSeq /\ \A i \in Invocations : WF_pc(Resumption(i))

----------------------------------------------------------------------------
(* Claims *)

\* the states of the left-to-right fold of evolve over events from s: f[0] = s
\* and f[k] is f[k-1] evolved by the k-th event
FoldStates(d, s, events) ==
    LET f[k \in 0..Len(events)] ==
            IF k = 0 THEN s ELSE Evolve(d, f[k - 1], events[k])
    IN f

\* C1: whenever StateComputation.computeNewState(s, c) returns, its result is
\* the left-to-right fold of evolve over decide(c, s) starting from s, and the
\* calls it made are decide(c, s) followed by one evolve per event, in the
\* order decide returned the events, each on the state the previous one left
C1_FoldInOrder ==
    \A k \in 1..Len(pRes.plain) :
        LET r == pRes.plain[k]
            events == Decide(decider, pCmd, pState)
            f == FoldStates(decider, pState, events)
        IN r.ok =>
            /\ r.state = f[Len(events)]
            /\ r.calls = <<<<"decide", pCmd, pState>>>>
                   \o [j \in 1..Len(events) |-> <<"evolve", f[j - 1], events[j]>>]

\* C1 witness: a command that decides two events was folded from a non-empty
\* state, where the order of the events shows in the result
C1_Witness ==
    /\ decider = "journal" /\ pCmd = "a" /\ pState = <<50>>
    /\ pRes.plain # <<>>
    /\ pRes.plain[1].ok
    /\ pRes.plain[1].state = <<50, 11, 12>>

\* the calls one command makes on state s: decide, then one evolve per event
StepCalls(d, g, c, s) ==
    LET events == Decide(d, c, s)
        f == FoldStates(d, s, events)
    IN <<<<"decide", c, s>>>>
           \o [j \in 1..Len(events) |-> <<"evolve", f[j - 1], events[j]>>]
           \o [j \in 1..Len(events) |-> <<"react", events[j]>>]

RECURSIVE FollowUps(_, _)
\* react(e1) ++ react(e2) ++ ... over the events, in their order
FollowUps(g, events) ==
    IF events = <<>> THEN <<>>
    ELSE React(g, Head(events)) \o FollowUps(g, Tail(events))

RECURSIVE Traverse(_, _, _, _, _, _)
\* the depth-first, left-to-right traversal as a loop over a stack of pending
\* commands: the first pending command is decided on the current state and its
\* events evolved in order; its follow-up commands go before the commands that
\* were already pending, so that they (and theirs) are done before the next
\* command of the same level
Traverse(d, g, pending, s, cs, fuel) ==
    IF pending = <<>> \/ fuel = 0
    THEN [done |-> pending = <<>>, state |-> s, calls |-> cs]
    ELSE LET c == Head(pending)
             events == Decide(d, c, s)
         IN Traverse(d, g, FollowUps(g, events) \o Tail(pending),
                     FoldStates(d, s, events)[Len(events)],
                     cs \o StepCalls(d, g, c, s), fuel - 1)

\* C2: whenever StateOrchestratingComputation.computeNewState(s, c) returns,
\* its result and the calls it made, in order, are those of the depth-first
\* left-to-right traversal: the events of a command are evolved in decide
\* order, then its follow-up commands react(e1) ++ react(e2) ++ ... are each
\* decided on the state the previous one left and cascaded completely before
\* the next one starts
C2_DepthFirstLeftToRight ==
    \A k \in 1..Len(pRes.orch) :
        LET r == pRes.orch[k]
            t == Traverse(decider, saga, <<pCmd>>, pState, <<>>, MaxCascade)
        IN r.ok => t.done /\ r.state = t.state /\ r.calls = t.calls

\* C2 witness: a cascade two levels deep with two follow-up commands at the
\* first level has been computed: "a" decides 11 and 12, 11 routes to "b" and
\* "c", 12 to "d", and "b" (event 20) routes on to "e" (event 50)
C2_Witness ==
    /\ decider = "journal" /\ saga = "routes" /\ pCmd = "a" /\ pState = <<50>>
    /\ pRes.orch # <<>>
    /\ pRes.orch[1].ok
    /\ pRes.orch[1].state = <<50, 11, 12, 20, 50, 30, 40>>

\* C9: with a saga whose react returns no command for any event, the
\* orchestrating computeNewState(s, c) returns what the plain one returns (or
\* throws what it throws), and an orchestrating aggregate and the
\* non-orchestrating one, called with the same commands one after the other,
\* hold the same stored state and version and settle each call the same way
C9_EmptyReactIsPlain ==
    saga = "none" =>
        /\ \A k \in 1..Len(pRes.plain) : \A m \in 1..Len(pRes.orch) :
               /\ pRes.orch[m].ok = pRes.plain[k].ok
               /\ pRes.orch[m].err = pRes.plain[k].err
               /\ pRes.orch[m].ok => pRes.orch[m].state = pRes.plain[k].state
        /\ store = twin.store
        /\ storeVersion = twin.version
        /\ twin.orchOutcome = twin.outcome

\* C9 witness: under the empty saga both algorithms were applied to a command
\* that decides events, and both aggregates have handled two commands, the
\* second one from the stored state of the first
C9_Witness ==
    /\ saga = "none"
    /\ pRes.plain # <<>> /\ pRes.orch # <<>>
    /\ pRes.plain[1].ok /\ pRes.plain[1].state # pState
    /\ twin.n >= 2
    /\ twin.outcome.status = "fulfilled"
    /\ twin.outcome.state # InitialState(decider)

\* the decide calls among the calls of a computation
DecideCalls(cs) == SelectSeq(cs, LAMBDA x : x[1] = "decide")

\* C11: with the counter decider and the saga that reacts to an increment with
\* "inc" while the resulting count is below 3, the orchestrating
\* computeNewState(n, "inc") returns 3 from every n < 3, after 3 - n increments
\* (from 0: the initial one and exactly two more), and n + 1 from every
\* n >= 3, after the initial increment alone
C11_CascadeStopsAtThree ==
    (decider = "counter" /\ saga = "below3" /\ pCmd = "inc") =>
        \A k \in 1..Len(pRes.orch) :
            LET r == pRes.orch[k]
            IN /\ r.ok
               /\ r.state = IF pState < 3 THEN 3 ELSE pState + 1
               /\ Len(DecideCalls(r.calls)) = IF pState < 3 THEN 3 - pState ELSE 1

\* C11 witness: computeNewState(0, "inc") has returned 3 after three decides
C11_Witness ==
    /\ decider = "counter" /\ saga = "below3" /\ pCmd = "inc" /\ pState = 0
    /\ pRes.orch # <<>>
    /\ pRes.orch[1].state = 3
    /\ Len(DecideCalls(pRes.orch[1].calls)) = 3

\* C16 (as stated): an aggregate gives, as a decider and a saga, the results
\* of the units it wraps: the same initialState, the same events from decide,
\* the same state from evolve and the same commands from react on every input;
\* and a computation built on the aggregate computes, for every state and
\* command, the new state a computation built on the wrapped decider computes
C16_AggregateAsDecider ==
    LET decided == StateComputation_decide(decider, pCmd, pState)
    IN /\ StateComputation_initialState(decider) = InitialState(decider)
       /\ decided.ok = ~DecideThrows(decider, pCmd, pState)
       /\ decided.ok =>
              /\ decided.events = Decide(decider, pCmd, pState)
              /\ \A k \in 1..Len(decided.events) :
                     LET e == decided.events[k]
                         evolved == StateComputation_evolve(TRUE, decider, pState, e)
                         reacted == StateOrchestratingComputation_react(saga, e)
                     IN /\ evolved.ok = ~EvolveThrows(decider, pState, e)
                        /\ evolved.ok => evolved.state = Evolve(decider, pState, e)
                        /\ reacted.ok = ~ReactThrows(saga, e)
                        /\ reacted.ok => reacted.cmds = React(saga, e)
       /\ \A k \in 1..Len(pRes.plain) : \A m \in 1..Len(pRes.over) :
              /\ pRes.over[m].ok = pRes.plain[k].ok
              /\ pRes.over[m].ok => pRes.over[m].state = pRes.plain[k].state

----------------------------------------------------------------------------
(* Claims about handle *)

\* invocation i has run past its await of fetchState
Resumed(i) == pc[i] \in {"saving", "done"}

\* the state fetchState returned to invocation i, or initialState if it
\* returned null
FetchedOrInitial(i) ==
    IF fetched[i].state.some THEN fetched[i].state.val ELSE InitialState(decider)

\* the state invocation i passed to computeNewState: that of its first decide
StartOf(i) == calls[i][2][3]

\* the saga the aggregate's computeNewState routes events through
RoutingSaga == IF Orchestrating(variant) THEN saga ELSE "none"

\* the whole cascade of invocation i, traversed from the state it started from
CascadeOf(i) ==
    Traverse(decider, RoutingSaga, <<cmd[i]>>, StartOf(i), <<>>, MaxCascade)

\* the calls of that cascade: a non-orchestrating aggregate has no saga to call
CascadeCalls(i) ==
    IF Orchestrating(variant)
    THEN CascadeOf(i).calls
    ELSE SelectSeq(CascadeOf(i).calls, LAMBDA x : x[1] # "react")

\* the number of save calls of invocation i
SaveCount(i) == Cardinality({k \in 1..Len(calls[i]) : calls[i][k][1] = "save"})

\* invocation i was rejected by a failure of fetchState or of its computation
FailedBeforeSave(i) ==
    /\ outcome[i].status = "rejected"
    /\ outcome[i].err \in
           {"FetchError", "DecideError", "EvolveError", "ReactError", "RangeError"}

\* if invocation i called save, the call is its last, comes after the calls of
\* its whole cascade, and passes the final state of the cascade
SavesFinalState(i) ==
    Saved(i) =>
        LET n == Len(calls[i])
            t == CascadeOf(i)
        IN /\ t.done
           /\ SubSeq(calls[i], 2, n - 1) = CascadeCalls(i)
           /\ calls[i][n][2] = t.state

\* the store holds nothing until a save succeeded, and then the state passed to
\* the last save that succeeded
StoreHoldsLastSave ==
    /\ store.some <=> saves # <<>>
    /\ saves # <<>> => store.val = SaveCall(saves[Len(saves)])[2]
    /\ \A k \in 1..Len(saves) : Saved(saves[k])

\* C3 (as stated): every handle invocation that has ended called save exactly
\* once, after its whole cascade and with the final state of the cascade, and
\* the store only ever holds such a final state
C3_SaveExactlyOnce ==
    /\ \A i \in Invocations :
           /\ pc[i] = "done" => SaveCount(i) = 1
           /\ SavesFinalState(i)
    /\ StoreHoldsLastSave

\* C3 (amended): a handle invocation calls save at most once: exactly once when
\* its fetchState and its computation did not fail, and not at all when one of
\* them did; the call comes after its whole cascade, with the final state of
\* the cascade, and the store only ever holds such a final state
C3_SaveOnceUnlessFailed ==
    /\ \A i \in Invocations :
           /\ SaveCount(i) <= 1
           /\ Resumed(i) => (SaveCount(i) = 1 <=> ~FailedBeforeSave(i))
           /\ SavesFinalState(i)
    /\ StoreHoldsLastSave

\* C3 witness: an orchestrating aggregate stored the end of a cascade: the
\* counter went from 0 to 3 in one handle("inc")
C3_Witness ==
    /\ decider = "counter" /\ saga = "below3"
    /\ \E i \in Invocations :
           /\ pc[i] = "done"
           /\ outcome[i].status = "fulfilled"
           /\ StartOf(i) = 0
           /\ store = Some(3)

\* C4 (as stated): computeNewState starts from initialState if and only if
\* fetchState returned null, and from the stored state whenever one was
\* returned, whatever its value
C4_StartsFromStored ==
    \A i \in Invocations :
        Resumed(i) /\ fetched[i].ok => StartOf(i) = FetchedOrInitial(i)

\* C10 (as stated): a command that decides no event on the fetched state (or
\* on initialState when the store was empty) makes handle call decide once,
\* neither evolve nor react, and save exactly that state
C10_NoOpSavesFetched ==
    \A i \in Invocations :
        (/\ Resumed(i)
         /\ fetched[i].ok
         /\ ~DecideThrows(decider, cmd[i], FetchedOrInitial(i))
         /\ Decide(decider, cmd[i], FetchedOrInitial(i)) = <<>>)
        => /\ Len(calls[i]) = 3
           /\ calls[i][2] = <<"decide", cmd[i], FetchedOrInitial(i)>>
           /\ Saved(i)
           /\ SaveCall(i)[2] = FetchedOrInitial(i)

\* C10, the part about computeNewState alone: when decide returns no event,
\* both algorithms return the state they were given, having called decide once
\* and neither evolve nor react
C10_NoEventsNoChange ==
    \A r \in {pRes.plain[k] : k \in 1..Len(pRes.plain)}
                \cup {pRes.orch[k] : k \in 1..Len(pRes.orch)} :
        (~DecideThrows(decider, pCmd, pState)
            /\ Decide(decider, pCmd, pState) = <<>>)
        => r.ok /\ r.state = pState /\ r.calls = <<<<"decide", pCmd, pState>>>>

\* C5: in the locking variants the version passed to save is the version the
\* same invocation's fetchState returned, null when that was null, whatever
\* the fetched state was and whatever the store holds by then
C5_VersionPassedThrough ==
    Locking(variant) =>
        \A i \in Invocations : Saved(i) => SaveCall(i)[3] = fetched[i].version

\* C5 witness: an invocation of a locking aggregate has called save with the
\* version it fetched although another invocation changed the stored version
\* in between
C5_Witness ==
    /\ Locking(variant)
    /\ \E i \in Invocations :
           /\ pc[i] = "saving"
           /\ SaveCall(i)[3] = fetched[i].version
           /\ fetched[i].version # storeVersion

\* invocations i and j of a locking aggregate both fetched the same state and
\* version and both saves have settled, over a repository that raises no
\* failure of its own, the save that replaced that version being one of theirs
Raced(i, j) ==
    /\ i # j
    /\ Locking(variant) /\ ~faulty
    /\ pc[i] = "done" /\ pc[j] = "done"
    /\ Saved(i) /\ Saved(j)
    /\ fetched[i] = fetched[j]
    /\ \A n \in 1..Len(saves) :
           saves[n] \notin {i, j} => fetched[saves[n]].version # fetched[i].version

\* the calls of invocation i are one fetchState, its computation, one save
NoRetry(i) ==
    /\ calls[i][1][1] = "fetchState"
    /\ \A k \in 2..Len(calls[i]) : calls[i][k][1] # "fetchState"
    /\ SaveCount(i) <= 1

\* invocation w won against invocation l
Won(w, l) ==
    /\ outcome[w].status = "fulfilled"
    /\ outcome[l].status = "rejected"
    /\ outcome[l].err = "ConcurrencyConflict"
    /\ NoRetry(l)
    /\ \E n \in 1..Len(saves) : saves[n] = w
    /\ \A n \in 1..Len(saves) : saves[n] # l
    /\ saves[Len(saves)] = w =>
           /\ store = Some(SaveCall(w)[2])
           /\ SaveCall(w)[2] = CascadeOf(w).state

RaisedBy(call) ==
    CASE call[1] = "decide" /\ DecideThrows(decider, call[2], call[3]) ->
             "DecideError"
      [] call[1] = "evolve" /\ EvolveThrows(decider, call[2], call[3]) ->
             "EvolveError"
      [] call[1] = "react" /\ ReactThrows(RoutingSaga, call[2]) -> "ReactError"
      [] OTHER -> ""

\* C7: a failure of fetchState, of decide, evolve or react anywhere in the
\* cascade, or of save rejects handle with that failure; nothing is called
\* after the failing call, no call is made twice, and an invocation rejected
\* by fetchState or by its computation never calls save, so that the store
\* holds what the last successful save passed
C7_FailuresPropagate ==
    /\ \A i \in Invocations :
           /\ Resumed(i) /\ ~fetched[i].ok =>
                  /\ outcome[i] = Rejected(decider, fetched[i].err)
                  /\ Len(calls[i]) = 1
           /\ Resumed(i) /\ fetched[i].ok
                  /\ RaisedBy(calls[i][Len(calls[i])]) # "" =>
                  /\ pc[i] = "done"
                  /\ outcome[i] = Rejected(decider, RaisedBy(calls[i][Len(calls[i])]))
           /\ Resumed(i) /\ fetched[i].ok =>
                  \A k \in 2..(Len(calls[i]) - 1) : RaisedBy(calls[i][k]) = ""
           /\ pc[i] = "done" /\ Saved(i) /\ (\A n \in 1..Len(saves) : saves[n] # i) =>
                  /\ outcome[i].status = "rejected"
                  /\ outcome[i].err \in {"SaveError", "ConcurrencyConflict"}
                  /\ outcome[i].err = "ConcurrencyConflict" =>
                         Locking(variant) /\ SaveCall(i)[3] = fetched[i].version
           /\ FailedBeforeSave(i) => ~Saved(i)
           /\ pc[i] # "idle" => NoRetry(i)
           /\ outcome[i].status = "rejected" => \A n \in 1..Len(saves) : saves[n] # i
    /\ StoreHoldsLastSave

\* C7 witness: in an orchestrating aggregate decide threw two levels down the
\* cascade of "deep", after the follow-up command before it had been computed;
\* handle was rejected with that failure and the store still holds what the
\* other invocation saved
C7_Witness ==
    \E i, j \in Invocations :
        /\ decider = "journal"
        /\ cmd[i] = "deep"
        /\ outcome[i] = Rejected(decider, "DecideError")
        /\ Len(calls[i]) > 5
        /\ outcome[j].status = "fulfilled"
        /\ store = Some(outcome[j].state)

\* C8: the step in which an invocation makes the first call of its
\* computation is the step in which it calls save or is rejected: it makes
\* all the calls of its cascade in that one step, in which no other invocation
\* and no repository takes part
C8_ComputeIsOneStep ==
    [][\A i \in Invocations :
           (calls[i] # <<>> /\ calls'[i] # calls[i]) =>
               /\ pc[i] = "fetched"
               /\ pc'[i] \in {"saving", "done"}
               /\ pc'[i] = "saving" => calls'[i][Len(calls'[i])][1] = "save"
               /\ \A j \in Invocations \ {i} :
                      /\ pc'[j] = pc[j]
                      /\ calls'[j] = calls[j]
                      /\ fetched'[j] = fetched[j]
                      /\ outcome'[j] = outcome[j]
               /\ UNCHANGED <<store, storeVersion, saves>>]_vars

\* C8 witness: while one invocation of an orchestrating aggregate waits for its
\* fetchState to be resumed, another has computed a whole cascade and called
\* save
C8_Witness ==
    /\ Orchestrating(variant)
    /\ \E i, j \in Invocations :
           /\ pc[i] = "saving"
           /\ Len(calls[i]) > 8
           /\ pc[j] = "fetched"

\* what the repository's save returns for the save call of invocation i when
\* it accepts it (a locking repository accepts it when the stored version is
\* the version passed)
SaveAnswer(i) ==
    IF Locking(variant)
    THEN StateLockingRepository_save(
             decider, store, SaveCall(i)[3], SaveCall(i)).outcome
    ELSE StateRepository_save(store, SaveCall(i)).outcome

ComputedAlone(i) ==
    Traverse(decider, RoutingSaga, <<cmd[i]>>,
             StartState(decider, fetched[i].state), <<>>, MaxCascade).state

\* C14: on the non-locking aggregates no save is ever refused because of
\* another invocation: every invocation whose save the repository answered
\* is fulfilled, also when another invocation fetched the same state and
\* saved in between, and the stored state is the one the invocation that
\* saved last computed from what it had fetched, without the effect of any
\* save made between its fetch and its save
C14_LastWriteWins ==
    ~Locking(variant) =>
        /\ \A i \in Invocations :
               /\ outcome[i].err # "ConcurrencyConflict"
               /\ (pc[i] = "done" /\ Saved(i) /\ outcome[i].err # "SaveError") =>
                      outcome[i] = Fulfilled(ComputedAlone(i), NullVersion)
        /\ saves # <<>> => store = Some(ComputedAlone(saves[Len(saves)]))

\* C14 witness: two invocations of the plain adder aggregate both fetched the
\* empty store, handle(1) saved first and handle(2) last, both were fulfilled,
\* and the store holds 2: the 1 is lost (one after the other they store 3)
C14_Witness ==
    /\ variant = "StateStoredAggregate" /\ decider = "adder"
    /\ cmd[1] = 1 /\ cmd[2] = 2
    /\ fetched[1].ok /\ fetched[2].ok
    /\ ~fetched[1].state.some /\ ~fetched[2].state.some
    /\ saves = <<1, 2>>
    /\ outcome[1] = Fulfilled(1, NullVersion)
    /\ outcome[2] = Fulfilled(2, NullVersion)
    /\ store = Some(2)

InMemory(i) ==
    LET f[k \in 2..(Len(calls[i]) + 1)] ==
            IF k = 2 THEN StartState(decider, fetched[i].state)
            ELSE LET c == calls[i][k - 1]
                 IN IF c[1] = "evolve" /\ ~EvolveThrows(decider, c[2], c[3])
                    THEN Evolve(decider, c[2], c[3])
                    ELSE f[k - 1]
    IN f

\* C18: a handle invocation calls fetchState exactly once, first and with the
\* command handle was called with; nothing else is called before the fetch has
\* returned; save is called at most once and last; and every decide and
\* evolve in between, for the original command and for every follow-up
\* command, is called on the state held in memory, which derives from that
\* one fetch, as is the state passed to save
C18_OneFetchComputeOneSave ==
    \A i \in Invocations :
        pc[i] # "idle" =>
            /\ calls[i][1] = <<"fetchState", cmd[i]>>
            /\ pc[i] \in {"fetching", "fetched"} => Len(calls[i]) = 1
            /\ \A k \in 2..Len(calls[i]) :
                   LET c == calls[i][k]
                   IN /\ c[1] # "fetchState"
                      /\ c[1] = "save" => k = Len(calls[i])
                      /\ c[1] = "decide" => c[3] = InMemory(i)[k]
                      /\ c[1] = "evolve" => c[2] = InMemory(i)[k]
                      /\ c[1] = "save" => c[2] = InMemory(i)[k]

\* C18 witness: an orchestrating aggregate has handled "a", whose cascade
\* decides four follow-up commands: its calls are one fetchState, five decides
\* with their evolves and reacts, and one save
C18_Witness ==
    /\ Orchestrating(variant) /\ decider = "journal" /\ saga = "routes"
    /\ \E i \in Invocations :
           /\ cmd[i] = "a"
           /\ outcome[i].status = "fulfilled"
           /\ Len(DecideCalls(calls[i])) = 5
           /\ Len(SelectSeq(calls[i], LAMBDA x : x[1] = "fetchState")) = 1
           /\ SaveCount(i) = 1

\* the result of applying computeNewState, starting from initialState, to the
\* commands of the first n invocations whose save succeeded, in that order
Serial(n) ==
    LET f[k \in 0..n] ==
            IF k = 0 THEN InitialState(decider)
            ELSE Traverse(decider, RoutingSaga, <<cmd[saves[k]]>>, f[k - 1], <<>>,
                          MaxCascade).state
    IN f[n]

\* the version the locking repository holds after n successful saves
VersionAfter(n) == IF n = 0 THEN NullVersion ELSE Some(n - 1)

\* C19 (as stated): on the locking aggregates no update is lost: the stored
\* state is what computeNewState gives when applied, from initialState, to the
\* commands of the invocations whose save succeeded, in the order of their
\* saves; each of them had fetched the version stored when it saved, and an
\* invocation that calls save with an older version is rejected with the
\* concurrency conflict
C19_NoLostUpdate ==
    Locking(variant) =>
        /\ storeVersion = VersionAfter(Len(saves))
        /\ \A n \in 1..Len(saves) :
               fetched[saves[n]].version = VersionAfter(n - 1)
        /\ \A i \in Invocations :
               (pc[i] = "done" /\ Saved(i)
                   /\ \A n \in 1..Len(saves) : saves[n] # i)
               => /\ outcome[i].status = "rejected"
                  /\ outcome[i].err \in {"ConcurrencyConflict", "SaveError"}
        /\ store = IF saves = <<>> THEN Null(decider)
                   ELSE Some(Serial(Len(saves)))

----------------------------------------------------------------------------
(* Claims about handle calls awaited one after the other *)

\* n1 + ... + ni, the commands of the first i invocations of the adder
SumOfCommands(i) ==
    LET f[k \in 0..i] == IF k = 0 THEN 0 ELSE f[k - 1] + cmd[k]
    IN f[i]

\* C12: on a StateStoredAggregate of the adder (decide(n, s) = [n],
\* evolve(s, e) = s + e, initialState 0) over a repository that starts empty,
\* with handle(n1), ..., handle(nk) awaited one after the other, the i-th call
\* is fulfilled with n1 + ... + ni, and that sum is the stored state until the
\* next call saves
C12_RunningSum ==
    (decider = "adder" /\ variant = "StateStoredAggregate" /\ ~faulty) =>
        \A i \in Invocations :
            pc[i] = "done" =>
                /\ outcome[i] = Fulfilled(SumOfCommands(i), NullVersion)
                /\ (i = MaxCalls \/ pc[i + 1] # "done") =>
                       store = Some(SumOfCommands(i))

\* C12 witness: handle(2) returned 2 and the following handle(1) returned 3,
\* which is stored
C12_Witness ==
    /\ decider = "adder" /\ variant = "StateStoredAggregate" /\ ~faulty
    /\ pc[1] = "done" /\ pc[2] = "done"
    /\ cmd[1] = 2 /\ cmd[2] = 1
    /\ outcome[1].state = 2
    /\ outcome[2] = Fulfilled(3, NullVersion)
    /\ store = Some(3)

\* the cascade of the command of invocation i from the state its handle starts
\* from, followed for at most MaxCascade commands
CascadeFrom(i) ==
    Traverse(decider, RoutingSaga, <<cmd[i]>>,
             StartState(decider, fetched[i].state), <<>>, MaxCascade)

\* decide and react produce no more follow-up commands after finitely many
ReachesFixedPoint(i) == CascadeFrom(i).done

\* no decide, evolve or react of the cascade throws
NoFailureIn(i) ==
    \A k \in 1..Len(CascadeFrom(i).calls) : RaisedBy(CascadeFrom(i).calls[k]) = ""

\* invocation i got a state from fetchState and its units do not throw
Computes(i) == fetched[i].ok /\ NoFailureIn(i)

\* C17: with units that do not throw, computeNewState returns if and only if
\* decide and react reach a fixed point.  If they do, handle, once its fetch
\* has returned, eventually calls save, with the state at the fixed point.  If
\* they do not (react(110) = ["loop"], decide("loop", _) = [110]), nothing in
\* computeNewState stops the recursion: it nests until the call stack of the
\* engine is used up, however deep that is, handle is rejected and save is
\* never called
C17_TerminatesIffFixedPoint ==
    /\ [](\A i \in Invocations :
             (Resumed(i) /\ Computes(i)) =>
                 /\ ReachesFixedPoint(i) =>
                        /\ Saved(i)
                        /\ SaveCall(i)[2] = CascadeFrom(i).state
                 /\ ~ReachesFixedPoint(i) =>
                        /\ ~Saved(i)
                        /\ pc[i] = "done"
                        /\ outcome[i] = Rejected(decider, "RangeError")
                        /\ Len(DecideCalls(calls[i])) = MaxStack)
    /\ \A i \in Invocations :
           (pc[i] = "fetched" /\ Computes(i) /\ ReachesFixedPoint(i)) ~> Saved(i)

\* C17 witness: handle("a") has saved the end of its cascade, and the
\* handle("loop") after it, whose cascade has no fixed point, was rejected
\* without a save
C17_Witness ==
    /\ decider = "journal" /\ saga = "routes" /\ Orchestrating(variant)
    /\ cmd[1] = "a" /\ Saved(1) /\ ReachesFixedPoint(1)
    /\ outcome[1].status = "fulfilled"
    /\ cmd[2] = "loop" /\ pc[2] = "done" /\ ~ReachesFixedPoint(2)
    /\ ~Saved(2)
    /\ store = Some(outcome[1].state)

====
